---- MODULE Spec2Model ----
(***************************************************************************)
(* Model of the greenlight request pipeline (cmd/api/middleware.go):       *)
(* rateLimit (per-client token bucket + background sweep), authenticate,   *)
(* requireAuthenticatedUser / requireActivatedUser / requirePermission.    *)
(*                                                                         *)
(* Time is discrete.  One tick is 1/(Rps*TicksPerToken) seconds, so a      *)
(* bucket gains exactly one unit per tick and one token is TicksPerToken   *)
(* units; token counts are kept in units, which keeps the limiter's        *)
(* float arithmetic exact.                                                 *)
(***************************************************************************)
EXTENDS Integers, Sequences, FiniteSets, TLC

\* ------------------------------------------------------------- bounds
\* Ticks per token period (1/Rps seconds): the resolution of the clock.
TicksPerToken == 2
\* Single ticks the clock may make at the start of a run.
MaxFine == 3
\* Whole minutes the clock may reach beyond the idle threshold.
ExtraMinutes == 1
\* Length up to which the decisions taken at one instant are recorded.
ExtraLog == 1
\* The requests a metered run serves.
MaxRequests == 5

\* ---------------------------------------------------- program constants
\* -limiter-rps default
Rps == 2
\* -limiter-burst default
Burst == 4
\* seconds in time.Minute
SecondsPerMinute == 60
\* the sweep's idle threshold, in minutes (3*time.Minute)
IdleMinutes == 3

Second == Rps * TicksPerToken
Minute == SecondsPerMinute * Second
IdleThreshold == IdleMinutes * Minute
\* 1/Rps seconds, the time in which a bucket gains one token.
TokenPeriod == TicksPerToken
\* One token, and a full bucket, in units.
One == TicksPerToken
Full == Burst * One
MaxTime == (IdleMinutes + ExtraMinutes) * Minute
MaxLog == Burst + 1 + ExtraLog
\* The clock's limit under fair scheduling: the sweep's first sleep and
\* ExtraMinutes more.
LiveMaxTime == (1 + ExtraMinutes) * Minute

Min(a, b) == IF a < b THEN a ELSE b

\* Client keys (realip.FromRequest results) and request goroutines.
\* realip.FromRequest gives "" when it can extract no address.
BadKey == ""
Keys == {"10.0.0.1", BadKey}
Procs == {"r1", "r2"}
NoIP == "-"
Sweeper == "sweep"
Free == "free"

VARIABLES
  scope,     \* what the environment does in this run: see Scopes
  enabled,   \* app.config.limiter.enabled
  now,       \* the clock (time.Now), in ticks
  mu,        \* holder of the rateLimit mutex, or Free
  clients,   \* the clients map: key -> [tokens, last, lastSeen]
  sweep,     \* the background goroutine: [pc, wakeAt, deleted]
  req,       \* per request goroutine: its position, its locals, the request and
             \* the response; aborted: the request's context is cancelled;
             \* history: calls (the stages and calls it entered)
             \* and sawOne (its Allow() found a single token)
  log,       \* history: per key, the Allow() decisions taken at the instant `now`
  deniedAt,  \* history: per key, when its latest decision was taken if that was
             \* a refusal no more than a token period ago, else -1
  stats,     \* the expvar counters of metrics: [received, sent, byStatus]
  shadow     \* history: reg, the clients map as the same requests would have
             \* left it had the sweep never run; late, whether some Allow()
             \* ran more than MaxStall after the stamp of its lastSeen

vars == <<scope, enabled, now, mu, clients, sweep, req, log, deniedAt, stats, shadow>>

\* ------------------------------------------------------- the environment
\* A run is one of five kinds.  In an "instant" and in a "chain" run every
\* request arrives within one tick of the clock (so the sweep, which sleeps a
\* minute, stays asleep), on both goroutines: in an "instant" run the requests
\* are anonymous ones for ungated routes, of both clients; in a "chain" run
\* they are of every kind, of one client.  In a "refill"
\* and in a "timed" run the clock moves and the requests are anonymous ones
\* for ungated routes: in a "refill" run the clock is read at single ticks,
\* to watch the bucket of one client fill under both goroutines, in a "timed"
\* run at whole minutes, to watch the sweep against one goroutine serving
\* both clients.  In a "metered" run the
\* metrics wrapper is installed around the chain and its counters are
\* observed, handlers and lookups may panic, and the server is watched for
\* its first MaxRequests requests, all of one client within one tick.
Scopes == {"instant", "chain", "refill", "timed", "metered"}
\* A sixth kind, for the runs under fair scheduling (LiveSpec): in a
\* "contended" run both goroutines serve anonymous requests of one client for
\* ungated routes while the clock is read at whole minutes, so that they
\* compete with each other and with the sweep for the mutex.
Contended == "contended"

\* Principals.  data.AnonymousUser is the distinguished empty user.
AnonymousUser == [id |-> 0, activated |-> FALSE]
Alice == [id |-> 1, activated |-> TRUE]
Bob == [id |-> 2, activated |-> FALSE]
Users == {Alice, Bob}
NoUser == [id |-> -1, activated |-> FALSE]
IsAnonymous(u) == u = AnonymousUser

\* Permission codes, and the handlers' gates.
Codes == {"movies:read", "movies:write"}
NoRoute == [gate |-> "none", code |-> "-"]
AllRoutes ==
  {[gate |-> g, code |-> "-"] : g \in {"open", "authenticated", "activated"}}
    \cup {[gate |-> "permission", code |-> c] : c \in Codes}

\* Authorization header values, as sequences of words and single spaces;
\* the empty sequence is the absent header.
Unread == <<"?">>
AllHeaders ==
  { <<>>,
    <<"Bearer">>,
    <<"Bearer", " ">>,
    <<"Basic", " ", "tokenA">>,
    <<"Bearer", " ", "tokenA", " ", "x">>,
    <<"Bearer", " ", "abc">>,
    <<"Bearer", " ", "tokenA">> }
\* The tokens data.ValidateTokenPlaintext accepts (v.Valid() at line 156).
WellFormedTokens == {<<"tokenA">>}

Metered == scope = "metered"
Headers ==
  CASE scope = "chain" -> AllHeaders
    [] scope = "metered" -> {<<>>, <<"Bearer", " ", "tokenA">>}
    [] OTHER -> {<<>>}
Routes ==
  CASE scope = "chain" -> AllRoutes
    [] scope = "metered" -> {[gate |-> g, code |-> "-"] : g \in {"open", "activated"}}
    [] OTHER -> {[gate |-> "open", code |-> "-"]}
Active == IF scope = "timed" THEN {"r1"} ELSE Procs
ActiveKeys ==
  IF scope \in {"chain", "refill", "metered", Contended} THEN {"10.0.0.1"} ELSE Keys

\* ------------------------------------------------------ the rate limiter
\* rate.NewLimiter(rate.Limit(rps), burst): a full bucket, never used.
NewLimiter == [tokens |-> Full, last |-> 0]

\* (mutant of Advance) replenishment without the cap.
AdvanceNoCap(lim, t) == lim.tokens + (t - lim.last)

\* The bucket's tokens at time t: replenished at one unit per tick since the
\* limiter's last update, capped at the burst.
Advance(lim, t) == Min(Full, lim.tokens + (t - lim.last))

\* (mutant of AllowOK) a whole token must be left over.
AllowOKStrict(lim, t) == Advance(lim, t) > One

\* limiter.Allow() at time t: whether one token is available.
AllowOK(lim, t) == Advance(lim, t) >= One

\* (mutant of AllowTake) the time of the last update is not recorded.
AllowTakeNoStamp(lim, t) ==
  IF Advance(lim, t) >= One
  THEN [tokens |-> Advance(lim, t) - One, last |-> lim.last]
  ELSE lim

\* limiter.Allow() at time t: the limiter afterwards.  A token is taken only
\* when the call succeeds; a refused call leaves the limiter as it was.
AllowTake(lim, t) ==
  IF AllowOK(lim, t)
  THEN [tokens |-> Advance(lim, t) - One, last |-> t]
  ELSE lim

\* &client{limiter: rate.NewLimiter(...)}: lastSeen is the zero time.
NewClient == [limiter |-> NewLimiter, lastSeen |-> 0]

\* (mutant of IsIdle) an entry exactly at the threshold counts as idle.
IsIdleAtThreshold(c, t) == t - c.lastSeen >= IdleThreshold

\* (mutant of IsIdle) the comparison is the wrong way round: the entries seen
\* lately are the ones deleted.
IsIdleFlipped(c, t) == t - c.lastSeen < IdleThreshold

\* time.Since(client.lastSeen) > 3*time.Minute
IsIdle(c, t) == t - c.lastSeen > IdleThreshold

\* The longest time between the stamp of lastSeen (line 91) and the call of
\* Allow() (line 95) after which a bucket that has become idle has also had
\* the time to fill.
MaxStall == IdleThreshold - Full

\* (mutant of MuLock) a lock that does not wait for the holder.
MuLockNoWait(g) == mu' = g

\* (mutant of MuLock) the sweep's hold on the mutex does not keep others out.
MuLockBarging(g) == mu \in {Free, Sweeper} /\ mu' = g

\* mu.Lock() by goroutine g: blocks until the mutex is free.
MuLock(g) == mu = Free /\ mu' = g

\* mu.Unlock()
MuUnlock == mu' = Free

\* ---------------------------------------------------------- the responses
\* The status code of each response helper.
StatusCode(kind) ==
  CASE kind = "rateLimitExceeded" -> 429
    [] kind \in {"invalidCredentials", "invalidAuthenticationToken",
                 "authenticationRequired"} -> 401
    [] kind \in {"inactiveAccount", "notPermitted"} -> 403
    [] kind = "serverError" -> 500
    [] kind = "ok" -> 200
    [] OTHER -> 0

Rejections ==
  {"rateLimitExceeded", "invalidCredentials", "invalidAuthenticationToken",
   "authenticationRequired", "inactiveAccount", "notPermitted", "serverError"}

\* The status codes counted, and the counters before any request.
StatusCodes == {200, 401, 403, 429, 500}
NoStats == [received |-> 0, sent |-> 0, byStatus |-> [c \in StatusCodes |-> 0]]

\* ------------------------------------------------------------- requests
IdleReq ==
  [pc |-> "idle", ip |-> NoIP, found |-> FALSE, sawOne |-> FALSE, hdr |-> Unread, user |-> NoUser,
   route |-> NoRoute, err |-> "nil", perr |-> "nil", perms |-> {}, resp |-> "none", calls |-> <<>>,
   close |-> FALSE, aborted |-> FALSE]

\* Goroutine p enters stage (or call) c.
Enter(r, c) == [r EXCEPT !.pc = c, !.calls = Append(@, c)]

\* Goroutine p writes response kind k and returns.
Reply(r, k) == [r EXCEPT !.pc = "done", !.resp = k]

SetReq(p, r) == req' = [req EXCEPT ![p] = r]

\* The history of key k's bucket at this instant (a deleted entry takes its
\* history with it), extended by a decision: the tokens
\* it found, its outcome, and the time since the decision before it if that
\* was a refusal at an earlier instant (else -1).
Logged(k, avail, ok) ==
  IF Len(log[k]) < MaxLog
  THEN [log EXCEPT ![k] = Append(@, [avail |-> avail, ok |-> ok,
                                     waited |-> IF deniedAt[k] >= 0 /\ deniedAt[k] < now
                                                THEN now - deniedAt[k] ELSE -1])]
  ELSE log

NoLog == [k \in Keys |-> <<>>]

\* The server hands a new request to goroutine p.
\* metrics, line 292: totalRequestsReceived.Add(1), where installed; then the
\* chain down to rateLimit.
Arrive(p) ==
  /\ p \in Active
  /\ IF Metered
     THEN /\ req[p].pc \in {"idle", "counted"}
          /\ stats.received < MaxRequests
          /\ stats' = [stats EXCEPT !.received = @ + 1]
     ELSE /\ req[p].pc \in {"idle", "done"}
          /\ UNCHANGED stats
  /\ SetReq(p, Enter(IdleReq, "rateLimit"))
  /\ UNCHANGED <<scope, shadow, enabled, now, mu, clients, sweep, log, deniedAt>>

\* (mutant of LimiterOn) the flag is not consulted.
LimiterAlwaysOn == TRUE

\* line 76: if app.config.limiter.enabled
LimiterOn == enabled

\* rateLimit, line 76-78: skip the check when disabled, else read the key.
RLEnter(p) ==
  /\ req[p].pc = "rateLimit"
  /\ IF LimiterOn
     THEN \E k \in ActiveKeys : SetReq(p, [req[p] EXCEPT !.pc = "lock", !.ip = k])
     ELSE SetReq(p, Enter(req[p], "authenticate"))
  /\ UNCHANGED <<scope, shadow, enabled, stats, now, mu, clients, sweep, log, deniedAt>>

\* line 81
RLLock(p) ==
  /\ req[p].pc = "lock"
  /\ MuLock(p)
  /\ SetReq(p, [req[p] EXCEPT !.pc = "find"])
  /\ UNCHANGED <<scope, shadow, enabled, stats, now, clients, sweep, log, deniedAt>>

\* line 85: _, found := clients[ip]
RLFind(p) ==
  /\ req[p].pc = "find"
  /\ SetReq(p, [req[p] EXCEPT !.pc = "create", !.found = req[p].ip \in DOMAIN clients])
  /\ UNCHANGED <<scope, shadow, enabled, stats, now, mu, clients, sweep, log, deniedAt>>

\* The map m after line 85-88 has run on it for key k.
Created(m, k) ==
  IF k \in DOMAIN m THEN m ELSE [j \in DOMAIN m \cup {k} |-> IF j = k THEN NewClient ELSE m[j]]

\* line 85-88: add a new client when the key was not found.
RLCreate(p) ==
  /\ req[p].pc = "create"
  /\ clients' = IF req[p].found
                THEN clients
                ELSE [k \in DOMAIN clients \cup {req[p].ip} |->
                        IF k = req[p].ip THEN NewClient ELSE clients[k]]
  /\ shadow' = [shadow EXCEPT !.reg = Created(@, req[p].ip)]
  /\ SetReq(p, [req[p] EXCEPT !.pc = "seen"])
  /\ UNCHANGED <<scope, enabled, stats, now, mu, sweep, log, deniedAt>>

\* line 91: clients[ip].lastSeen = time.Now()
RLSeen(p) ==
  /\ req[p].pc = "seen"
  /\ req[p].ip \in DOMAIN clients
  /\ clients' = [clients EXCEPT ![req[p].ip].lastSeen = now]
  /\ shadow' = [shadow EXCEPT !.reg[req[p].ip].lastSeen = now]
  /\ SetReq(p, [req[p] EXCEPT !.pc = "allow"])
  /\ UNCHANGED <<scope, enabled, stats, now, mu, sweep, log, deniedAt>>

\* (mutant of RLAllow) one limiter for the whole server: an admission draws
\* on every client's bucket.
RLAllowShared(p) ==
  /\ req[p].pc = "allow"
  /\ req[p].ip \in DOMAIN clients
  /\ LET k == req[p].ip
         lim == clients[k].limiter
     IN /\ clients' = [j \in DOMAIN clients |->
                         [clients[j] EXCEPT !.limiter = AllowTake(@, now)]]
        /\ log' = Logged(k, Advance(lim, now), AllowOK(lim, now))
        /\ deniedAt' = [deniedAt EXCEPT ![k] = IF AllowOK(lim, now) THEN -1 ELSE now]
        /\ shadow' = [reg |-> [shadow.reg EXCEPT ![k].limiter = AllowTake(@, now)],
                      late |-> shadow.late \/ now - clients[k].lastSeen > MaxStall]
        /\ SetReq(p, [req[p] EXCEPT !.pc = IF AllowOK(lim, now) THEN "admitted" ELSE "denied",
                                    !.sawOne = Advance(lim, now) \in One..(2 * One - 1)])
  /\ UNCHANGED <<scope, enabled, stats, now, mu, sweep>>

\* line 95: clients[ip].limiter.Allow()
RLAllow(p) ==
  /\ req[p].pc = "allow"
  /\ req[p].ip \in DOMAIN clients
  /\ LET k == req[p].ip
         lim == clients[k].limiter
     IN /\ clients' = [clients EXCEPT ![k].limiter = AllowTake(lim, now)]
        /\ log' = Logged(k, Advance(lim, now), AllowOK(lim, now))
        /\ deniedAt' = [deniedAt EXCEPT ![k] = IF AllowOK(lim, now) THEN -1 ELSE now]
        /\ shadow' = [reg |-> [shadow.reg EXCEPT ![k].limiter = AllowTake(@, now)],
                      late |-> shadow.late \/ now - clients[k].lastSeen > MaxStall]
        /\ SetReq(p, [req[p] EXCEPT !.pc = IF AllowOK(lim, now) THEN "admitted" ELSE "denied",
                                    !.sawOne = Advance(lim, now) \in One..(2 * One - 1)])
  /\ UNCHANGED <<scope, enabled, stats, now, mu, sweep>>

\* (mutant of RLDenyUnlock) the 429 is written with the mutex held.
RLDenyKeepLock(p) ==
  /\ req[p].pc = "denied"
  /\ SetReq(p, [req[p] EXCEPT !.pc = "write429"])
  /\ UNCHANGED <<scope, shadow, enabled, stats, now, mu, clients, sweep, log, deniedAt>>

\* line 96: the denied request unlocks ...
RLDenyUnlock(p) ==
  /\ req[p].pc = "denied"
  /\ MuUnlock
  /\ SetReq(p, [req[p] EXCEPT !.pc = "write429"])
  /\ UNCHANGED <<scope, shadow, enabled, stats, now, clients, sweep, log, deniedAt>>

\* (mutant of Exceeded) the return after the 429 is missing: next is called.
ExceededNoReturn(r) == Enter([r EXCEPT !.resp = "rateLimitExceeded"], "authenticate")

\* line 97-98: app.rateLimitExceededResponse(w, r); return
Exceeded(r) == Reply([r EXCEPT !.ip = NoIP, !.sawOne = FALSE], "rateLimitExceeded")

\* line 97-98: ... writes the 429 and returns.
RLWrite429(p) ==
  /\ req[p].pc = "write429"
  /\ SetReq(p, Exceeded(req[p]))
  /\ UNCHANGED <<scope, shadow, enabled, stats, now, mu, clients, sweep, log, deniedAt>>

\* (mutant of RLAdmitUnlock) the token is put back as the request leaves the
\* section.
RLAdmitUnlockRefund(p) ==
  /\ req[p].pc = "admitted"
  /\ MuUnlock
  /\ clients' = [clients EXCEPT ![req[p].ip].limiter.tokens = Min(Full, @ + One)]
  /\ SetReq(p, Enter(req[p], "authenticate"))
  /\ UNCHANGED <<scope, shadow, enabled, stats, now, sweep, log, deniedAt>>

\* line 104-107: the admitted request unlocks and calls next.
RLAdmitUnlock(p) ==
  /\ req[p].pc = "admitted"
  /\ MuUnlock
  /\ SetReq(p, Enter(req[p], "authenticate"))
  /\ UNCHANGED <<scope, shadow, enabled, stats, now, clients, sweep, log, deniedAt>>

\* ---------------------------------------------------------- authenticate
\* strings.Split(h, " "): the parts of h between its spaces.
RECURSIVE Split(_)
Split(h) ==
  IF \A i \in 1..Len(h) : h[i] # " "
  THEN <<h>>
  ELSE LET i == CHOOSE j \in 1..Len(h) : h[j] = " " /\ \A l \in 1..(j - 1) : h[l] # " "
       IN <<SubSeq(h, 1, i - 1)>> \o Split(SubSeq(h, i + 1, Len(h)))

\* line 144: the header is "Bearer <token>".
IsBearer(parts) == Len(parts) = 2 /\ parts[1] = <<"Bearer">>

\* line 153-156: data.ValidateTokenPlaintext(v, token) leaves v valid.
IsValidTokenShape(token) == token \in WellFormedTokens

\* (mutant of AuthOutcome) an absent header is handled like any other.
AuthOutcomeNoAnonymous(r, h) ==
  IF ~IsBearer(Split(h))
  THEN Reply(r, "invalidCredentials")
  ELSE IF ~IsValidTokenShape(Split(h)[2])
  THEN Reply([r EXCEPT !.calls = Append(@, "ValidateTokenPlaintext")],
             "invalidAuthenticationToken")
  ELSE Enter([r EXCEPT !.calls = Append(@, "ValidateTokenPlaintext")], "GetForToken")

\* (mutant of AuthOutcome) the token's shape is not checked before the lookup.
AuthOutcomeNoShapeCheck(r, h) ==
  IF h = <<>>
  THEN Enter([r EXCEPT !.user = AnonymousUser], "router")
  ELSE IF ~IsBearer(Split(h))
  THEN Reply(r, "invalidCredentials")
  ELSE Enter(r, "GetForToken")

\* (mutant of AuthOutcome) a token of the wrong shape is reported like a
\* header of the wrong form.
AuthOutcomeOneKind(r, h) ==
  IF h = <<>>
  THEN Enter([r EXCEPT !.user = AnonymousUser], "router")
  ELSE IF ~IsBearer(Split(h))
  THEN Reply(r, "invalidCredentials")
  ELSE IF ~IsValidTokenShape(Split(h)[2])
  THEN Reply([r EXCEPT !.calls = Append(@, "ValidateTokenPlaintext")], "invalidCredentials")
  ELSE Enter([r EXCEPT !.calls = Append(@, "ValidateTokenPlaintext")], "GetForToken")

\* line 125-159: request r, with Authorization header h, up to the lookup.
AuthOutcome(r, h) ==
  IF h = <<>>
  THEN Enter([r EXCEPT !.user = AnonymousUser], "router")
  ELSE IF ~IsBearer(Split(h))
  THEN Reply(r, "invalidCredentials")
  ELSE IF ~IsValidTokenShape(Split(h)[2])
  THEN Reply([r EXCEPT !.calls = Append(@, "ValidateTokenPlaintext")],
             "invalidAuthenticationToken")
  ELSE Enter([r EXCEPT !.calls = Append(@, "ValidateTokenPlaintext")], "GetForToken")

Authenticate(p) ==
  /\ req[p].pc = "authenticate"
  /\ \E h \in Headers :
       SetReq(p, AuthOutcome([req[p] EXCEPT !.hdr = h, !.ip = NoIP, !.sawOne = FALSE], h))
  /\ UNCHANGED <<scope, shadow, enabled, stats, now, mu, clients, sweep, log, deniedAt>>

\* What app.models.Users.GetForToken may return: a user, or an error.
LookupResults ==
  {[user |-> u, err |-> "nil"] : u \in Users}
    \cup {[user |-> NoUser, err |-> e] : e \in {"ErrRecordNotFound", "other"}}

\* (mutant of LookupOutcome) every lookup error is an internal error.
LookupOutcomeAllFatal(r, res) ==
  IF res.err # "nil"
  THEN Reply([r EXCEPT !.err = res.err], "serverError")
  ELSE Enter([r EXCEPT !.user = res.user], "router")

\* line 164-180: request r once the lookup has returned res.
LookupOutcome(r, res) ==
  IF res.err # "nil"
  THEN IF res.err = "ErrRecordNotFound"
       THEN Reply([r EXCEPT !.err = res.err], "invalidCredentials")
       ELSE Reply([r EXCEPT !.err = res.err], "serverError")
  ELSE Enter([r EXCEPT !.user = res.user], "router")

AuthLookup(p) ==
  /\ req[p].pc = "GetForToken"
  /\ \E res \in LookupResults : SetReq(p, LookupOutcome(req[p], res))
  /\ UNCHANGED <<scope, shadow, enabled, stats, now, mu, clients, sweep, log, deniedAt>>

\* --------------------------------------------------------- the access gates
\* The stage a route's handler is wrapped in, outermost first:
\* requirePermission wraps its check in requireActivatedUser, which wraps its
\* own in requireAuthenticatedUser (line 198, 239).
\* (mutant of FirstStage) each wrapper runs its own check first.
FirstStageOwnCheck(route) ==
  CASE route.gate = "open" -> "handler"
    [] route.gate = "authenticated" -> "requireAuthenticatedUser"
    [] route.gate = "activated" -> "requireActivatedUser"
    [] OTHER -> "requirePermission"

FirstStage(route) == IF route.gate = "open" THEN "handler" ELSE "requireAuthenticatedUser"
AfterAuthenticated(route) ==
  IF route.gate = "authenticated" THEN "handler" ELSE "requireActivatedUser"
AfterActivated(route) ==
  IF route.gate = "activated" THEN "handler" ELSE "requirePermission"

\* The router hands the request to the handler of its route.
Router(p) ==
  /\ req[p].pc = "router"
  /\ \E rt \in Routes : SetReq(p, Enter([req[p] EXCEPT !.route = rt], FirstStage(rt)))
  /\ UNCHANGED <<scope, shadow, enabled, stats, now, mu, clients, sweep, log, deniedAt>>

\* (mutant of RequireAuthenticatedUser) the anonymous check is missing.
RequireAuthenticatedUserNoCheck(p) ==
  /\ req[p].pc = "requireAuthenticatedUser"
  /\ SetReq(p, Enter(req[p], AfterAuthenticated(req[p].route)))
  /\ UNCHANGED <<scope, shadow, enabled, stats, now, mu, clients, sweep, log, deniedAt>>

\* line 203-212
RequireAuthenticatedUser(p) ==
  /\ req[p].pc = "requireAuthenticatedUser"
  /\ IF IsAnonymous(req[p].user)
     THEN SetReq(p, Reply(req[p], "authenticationRequired"))
     ELSE SetReq(p, Enter(req[p], AfterAuthenticated(req[p].route)))
  /\ UNCHANGED <<scope, shadow, enabled, stats, now, mu, clients, sweep, log, deniedAt>>

\* line 185-195
RequireActivatedUser(p) ==
  /\ req[p].pc = "requireActivatedUser"
  /\ IF ~req[p].user.activated
     THEN SetReq(p, Reply(req[p], "inactiveAccount"))
     ELSE SetReq(p, Enter(req[p], AfterActivated(req[p].route)))
  /\ UNCHANGED <<scope, shadow, enabled, stats, now, mu, clients, sweep, log, deniedAt>>

\* line 217-222: the permission check calls the lookup.
RequirePermission(p) ==
  /\ req[p].pc = "requirePermission"
  /\ SetReq(p, Enter(req[p], "GetAllForUser"))
  /\ UNCHANGED <<scope, shadow, enabled, stats, now, mu, clients, sweep, log, deniedAt>>

\* What app.models.Permissions.GetAllForUser may return.
PermissionResults ==
  {[perms |-> ps, err |-> "nil"] : ps \in SUBSET Codes}
    \cup {[perms |-> {}, err |-> "other"]}

\* permissions.Include(code)
Include(perms, code) == code \in perms

\* (mutant of PermissionOutcome) holding any permission is enough.
PermissionOutcomeAnyCode(r, res) ==
  IF res.err # "nil"
  THEN Reply([r EXCEPT !.perr = res.err], "serverError")
  ELSE IF res.perms = {}
  THEN Reply([r EXCEPT !.perms = res.perms], "notPermitted")
  ELSE Enter([r EXCEPT !.perms = res.perms], "handler")

\* line 222-235: request r once the lookup has returned res.
PermissionOutcome(r, res) ==
  IF res.err # "nil"
  THEN Reply([r EXCEPT !.perr = res.err], "serverError")
  ELSE IF ~Include(res.perms, r.route.code)
  THEN Reply([r EXCEPT !.perms = res.perms], "notPermitted")
  ELSE Enter([r EXCEPT !.perms = res.perms], "handler")

PermissionLookup(p) ==
  /\ req[p].pc = "GetAllForUser"
  /\ \E res \in PermissionResults : SetReq(p, PermissionOutcome(req[p], res))
  /\ UNCHANGED <<scope, shadow, enabled, stats, now, mu, clients, sweep, log, deniedAt>>

\* The business handler answers.
Handler(p) ==
  /\ req[p].pc = "handler"
  /\ SetReq(p, Reply(req[p], "ok"))
  /\ UNCHANGED <<scope, shadow, enabled, stats, now, mu, clients, sweep, log, deniedAt>>

\* ------------------------------------------------------- cancellation
\* The caller goes away while its request is in the chain: net/http cancels
\* the context of r.  No line of the chain reads r.Context(), and the lookups
\* are called with the scope and token (line 164) and with the user id (line
\* 222) only, so nothing else changes.
Abort(p) ==
  /\ scope = "chain"
  /\ req[p].pc \notin {"idle", "done"}
  /\ ~req[p].aborted
  /\ SetReq(p, [req[p] EXCEPT !.aborted = TRUE])
  /\ UNCHANGED <<scope, shadow, enabled, stats, now, mu, clients, sweep, log, deniedAt>>

\* ------------------------------------------------- recovery and metrics
\* The stages in which code outside this file runs and may panic.
MayPanic == {"GetForToken", "GetAllForUser", "handler"}

\* A lookup or the business handler panics, before anything is written.
Panic(p) ==
  /\ Metered
  /\ req[p].pc \in MayPanic
  /\ SetReq(p, [req[p] EXCEPT !.pc = "panic"])
  /\ UNCHANGED <<scope, shadow, enabled, stats, now, mu, clients, sweep, log, deniedAt>>

\* (mutant of Recovered) the connection is left reusable.
RecoveredKeepAlive(r) == Reply(r, "serverError")

\* recoverPanic, line 22-33: the deferred function of the outer wrapper sets
\* "Connection: close" and answers with serverErrorResponse.
Recovered(r) == Reply([r EXCEPT !.close = TRUE], "serverError")

RecoverPanic(p) ==
  /\ req[p].pc = "panic"
  /\ SetReq(p, Recovered(req[p]))
  /\ UNCHANGED <<scope, shadow, enabled, stats, now, mu, clients, sweep, log, deniedAt>>

\* metrics, line 296-300: CaptureMetrics returns; totalResponsesSent.Add(1)
MetricsSent(p) ==
  /\ Metered
  /\ req[p].pc = "done"
  /\ stats' = [stats EXCEPT !.sent = @ + 1]
  /\ SetReq(p, [req[p] EXCEPT !.pc = "sent"])
  /\ UNCHANGED <<scope, shadow, enabled, now, mu, clients, sweep, log, deniedAt>>

\* (mutant of MetricsStatus) only the responses of handlers are counted by
\* status.
MetricsStatusOkOnly(p) ==
  /\ req[p].pc = "sent"
  /\ stats' = IF req[p].resp = "ok"
              THEN [stats EXCEPT !.byStatus[StatusCode(req[p].resp)] = @ + 1]
              ELSE stats
  /\ SetReq(p, [req[p] EXCEPT !.pc = "counted"])
  /\ UNCHANGED <<scope, shadow, enabled, now, mu, clients, sweep, log, deniedAt>>

\* metrics, line 308: totalResponsesSentByStatus.Add(strconv.Itoa(metrics.Code), 1)
MetricsStatus(p) ==
  /\ req[p].pc = "sent"
  /\ stats' = [stats EXCEPT !.byStatus[StatusCode(req[p].resp)] = @ + 1]
  /\ SetReq(p, [req[p] EXCEPT !.pc = "counted"])
  /\ UNCHANGED <<scope, shadow, enabled, now, mu, clients, sweep, log, deniedAt>>

\* ------------------------------------------------------------ the sweep
\* line 55: time.Sleep(time.Minute) returns, a minute or more after it began.
SweepWake ==
  /\ sweep.pc = "sleep"
  /\ now >= sweep.wakeAt
  /\ sweep' = [sweep EXCEPT !.pc = "lock"]
  /\ UNCHANGED <<scope, shadow, enabled, stats, now, mu, clients, req, log, deniedAt>>

\* line 58
SweepLock ==
  /\ sweep.pc = "lock"
  /\ MuLock(Sweeper)
  /\ sweep' = [sweep EXCEPT !.pc = "scan"]
  /\ UNCHANGED <<scope, shadow, enabled, stats, now, clients, req, log, deniedAt>>

\* The keys the loop of line 62-66 deletes at time t.
IdleKeys(t) == {k \in DOMAIN clients : IsIdle(clients[k], t)}

\* line 62-66
SweepScan ==
  /\ sweep.pc = "scan"
  /\ clients' = [k \in DOMAIN clients \ IdleKeys(now) |-> clients[k]]
  /\ sweep' = [sweep EXCEPT !.pc = "unlock", !.deleted = IdleKeys(now)]
  /\ log' = [k \in Keys |-> IF k \in IdleKeys(now) THEN <<>> ELSE log[k]]
  /\ deniedAt' = [k \in Keys |-> IF k \in IdleKeys(now) THEN -1 ELSE deniedAt[k]]
  /\ UNCHANGED <<scope, shadow, enabled, stats, now, mu, req>>

\* (mutant of SweepUnlock) the sweep goes back to sleep with the mutex held.
SweepKeepLock ==
  /\ sweep.pc = "unlock"
  /\ sweep' = [pc |-> "sleep", wakeAt |-> now + Minute, deleted |-> {}]
  /\ UNCHANGED <<scope, shadow, enabled, stats, now, mu, clients, req, log, deniedAt>>

\* line 69, and back to line 55
SweepUnlock ==
  /\ sweep.pc = "unlock"
  /\ MuUnlock
  /\ sweep' = [pc |-> "sleep", wakeAt |-> now + Minute, deleted |-> {}]
  /\ UNCHANGED <<scope, shadow, enabled, stats, now, clients, req, log, deniedAt>>

\* ------------------------------------------------------------- the clock
\* The instants at which the clock is observed: the first MaxFine single
\* ticks, or whole minutes.
CanTick(d) ==
  /\ d = 1 => (scope = "refill" /\ now < MaxFine)
  /\ d = Minute => (scope \in {"timed", Contended} /\ now % Minute = 0)
  /\ now + d <= (IF scope = Contended THEN LiveMaxTime ELSE MaxTime)

\* Time passes.
Tick ==
  /\ scope \in {"refill", "timed", Contended}
  /\ \E d \in {1, Minute} : CanTick(d) /\ now' = now + d
  /\ log' = NoLog
  /\ deniedAt' = [k \in Keys |-> IF now' - deniedAt[k] <= TokenPeriod THEN deniedAt[k] ELSE -1]
  /\ UNCHANGED <<scope, shadow, enabled, stats, mu, clients, sweep, req>>

\* rateLimit has been called: the map is empty, the mutex free, the sweep
\* goroutine in its first sleep; no request has arrived.
Start ==
  /\ now = 0
  /\ mu = Free
  /\ clients = <<>>
  /\ sweep = [pc |-> "sleep", wakeAt |-> Minute, deleted |-> {}]
  /\ req = [p \in Procs |-> IdleReq]
  /\ log = NoLog
  /\ deniedAt = [k \in Keys |-> -1]
  /\ stats = NoStats
  /\ shadow = [reg |-> <<>>, late |-> FALSE]

Init ==
  /\ scope \in Scopes
  /\ enabled \in BOOLEAN
  /\ Start

Step(p) ==
  \/ Arrive(p)
  \/ RLEnter(p)
  \/ RLLock(p)
  \/ RLFind(p)
  \/ RLCreate(p)
  \/ RLSeen(p)
  \/ RLAllow(p)
  \/ RLDenyUnlock(p)
  \/ RLWrite429(p)
  \/ RLAdmitUnlock(p)
  \/ Authenticate(p)
  \/ AuthLookup(p)
  \/ Router(p)
  \/ RequireAuthenticatedUser(p)
  \/ RequireActivatedUser(p)
  \/ RequirePermission(p)
  \/ PermissionLookup(p)
  \/ Handler(p)
  \/ Abort(p)
  \/ Panic(p)
  \/ RecoverPanic(p)
  \/ MetricsSent(p)
  \/ MetricsStatus(p)

Next ==
  \/ \E p \in Procs : Step(p)
  \/ SweepWake
  \/ SweepLock
  \/ SweepScan
  \/ SweepUnlock
  \/ Tick

Spec == Init /\ [][Next]_vars

\* ------------------------------------------------------ fair scheduling
\* The steps of rateLimit's handler other than mu.Lock(), line 76-107.
RLRun(p) ==
  \/ RLEnter(p)
  \/ RLFind(p)
  \/ RLCreate(p)
  \/ RLSeen(p)
  \/ RLAllow(p)
  \/ RLDenyUnlock(p)
  \/ RLWrite429(p)
  \/ RLAdmitUnlock(p)

\* The steps of an anonymous request for an ungated route.
LiveStep(p) ==
  \/ Arrive(p)
  \/ RLLock(p)
  \/ RLRun(p)
  \/ Authenticate(p)
  \/ Router(p)
  \/ Handler(p)

LiveInit ==
  /\ scope = Contended
  /\ enabled \in BOOLEAN
  /\ Start

LiveNext ==
  \/ \E p \in Procs : LiveStep(p)
  \/ SweepWake
  \/ SweepLock
  \/ SweepScan
  \/ SweepUnlock
  \/ Tick

\* The Go scheduler runs every runnable goroutine again, so a goroutine that
\* can take its next step in rateLimit or in the sweep takes it; a goroutine
\* waiting in mu.Lock() gets the mutex if it is released again and again
\* (sync.Mutex hands it to a waiter that has waited long: starvation mode).
\* Nothing makes requests arrive, the clock be read later, or the stages
\* below rateLimit return.
Fairness ==
  /\ \A p \in Procs : WF_vars(RLRun(p)) /\ SF_vars(RLLock(p))
  /\ WF_vars(SweepWake)
  /\ SF_vars(SweepLock)
  /\ WF_vars(SweepScan)
  /\ WF_vars(SweepUnlock)

LiveSpec == LiveInit /\ [][LiveNext]_vars /\ Fairness

\* The tokens of key k's bucket now.
Avail(k) == Advance(clients[k].limiter, now)
\* A token count of one token and less than two.
ExactlyOne(n) == n >= One /\ n < 2 * One
Last(seq) == seq[Len(seq)]
\* Request r has its response and the chain below metrics has returned.
Over(r) == r.pc \in {"done", "sent", "counted"}
Has(r, c) == \E i \in 1..Len(r.calls) : r.calls[i] = c

\* ------------------------------------------------------------------ claims

\* C1 (part): of two admission checks of one key with no time between them,
\* the first finding exactly one token, the first is admitted and the second
\* refused.
C1NoDoubleSpend ==
  \A k \in Keys : \A i, j \in 1..Len(log[k]) :
    (i < j /\ ExactlyOne(log[k][i].avail)) => (log[k][i].ok /\ ~log[k][j].ok)

\* C1 (part): a request installs a new limiter entry only for a key that has
\* none, so concurrent first requests of a key install exactly one.
C1CreateOnce ==
  \A p \in Procs :
    (req[p].pc = "create" /\ req'[p].pc = "seen" /\ ~req[p].found)
      => req[p].ip \notin DOMAIN clients

\* C1: two concurrent admission checks of one client whose bucket holds
\* exactly one token: exactly one is admitted, under every interleaving, and
\* concurrent first requests of a new key create exactly one limiter entry.
C1_NoDoubleSpend == [](C1NoDoubleSpend) /\ [][C1CreateOnce]_vars

\* Two requests of one key are in rateLimit together; one found exactly one
\* token and was admitted, the other has been refused.
C1_Witness ==
  \E p, q \in Procs :
    /\ p # q
    /\ req[p].ip = req[q].ip
    /\ req[p].pc = "authenticate" /\ req[p].sawOne
    /\ req[q].pc = "denied"
    /\ Len(log[req[q].ip]) >= 2
    /\ ~Last(log[req[q].ip]).ok

\* C2: from a full bucket, of the requests of one client with no time between
\* them the first Burst are admitted and the next is refused; a refused
\* request is answered 429 and goes no further.
C2_BurstThenDeny ==
  /\ \A k \in Keys :
       (log[k] # <<>> /\ log[k][1].avail = Full)
         => \A i \in 1..Min(Len(log[k]), Burst + 1) : log[k][i].ok <=> (i <= Burst)
  /\ \A p \in Procs :
       /\ req[p].pc \in {"denied", "write429"} => req[p].calls = <<"rateLimit">>
       /\ (req[p].pc = "done" /\ req[p].calls = <<"rateLimit">>)
            => StatusCode(req[p].resp) = 429

\* The defaults: four admissions and then a 429.
C2_Witness ==
  /\ Rps = 2 /\ Burst = 4
  /\ \E k \in Keys :
       /\ Len(log[k]) >= 5
       /\ log[k][1].avail = Full
       /\ \A i \in 1..4 : log[k][i].ok
       /\ ~log[k][5].ok
  /\ \E p \in Procs : req[p].pc = "done" /\ StatusCode(req[p].resp) = 429

\* C3 (part): every bucket holds between 0 and Burst tokens.
C3Range ==
  \A k \in DOMAIN clients :
    /\ clients[k].limiter.tokens >= 0 /\ clients[k].limiter.tokens <= Full
    /\ Avail(k) >= 0 /\ Avail(k) <= Full

\* C3 (part): a step changes a bucket's tokens only by replenishing them for
\* the time passed, up to the burst, or by an admission, which needs one
\* token and takes exactly one; a refusal takes nothing.
C3Step ==
  \A k \in DOMAIN clients \cap DOMAIN clients' :
    LET before == Avail(k)
        after == Advance(clients'[k].limiter, now')
        admits == \E p \in Procs :
                    req[p].pc = "allow" /\ req[p].ip = k /\ req'[p].pc = "admitted"
        refuses == \E p \in Procs :
                     req[p].pc = "allow" /\ req[p].ip = k /\ req'[p].pc = "denied"
    IN /\ admits => (before >= One /\ after = before - One)
       /\ refuses => (before < One /\ after = before)
       /\ ~admits => after = Min(Full, before + (now' - now))

\* C3: 0 <= tokens <= burst always; tokens grow only by replenishment at the
\* rate, capped at the burst; an admission needs a token and takes exactly one.
C3_TokenBounds == [](C3Range) /\ [][C3Step]_vars

\* A bucket that was used after time had passed and whose replenishment is
\* now held at the cap.
C3_Witness ==
  \E k \in DOMAIN clients :
    /\ clients[k].limiter.last > 0
    /\ clients[k].limiter.tokens < Full
    /\ clients[k].limiter.tokens + (now - clients[k].limiter.last) > Full

\* C4: a request sent exactly one token period (1/rate seconds) after the
\* client's last request was refused is admitted, and one sent right after it
\* is refused.
C4_OneAfterWait ==
  \A k \in Keys : \A i \in 1..Len(log[k]) :
    log[k][i].waited = TokenPeriod
      => /\ log[k][i].ok
         /\ \A j \in (i + 1)..Len(log[k]) : ~log[k][j].ok

\* A refusal, the wait, an admission with less than a whole token in the
\* bucket before the wait, and a refusal right after.
C4_Witness ==
  \E k \in Keys :
    /\ Len(log[k]) = 2
    /\ log[k][1].waited = TokenPeriod /\ log[k][1].ok /\ log[k][1].avail > One
    /\ ~log[k][2].ok

\* C5: a run of the sweep removes exactly the entries last seen more than the
\* idle threshold ago, and leaves every other entry as it was.
C5_SweepEvictsIdle ==
  [][ (sweep.pc = "scan" /\ sweep'.pc = "unlock")
        => /\ DOMAIN clients' =
                {k \in DOMAIN clients : now - clients[k].lastSeen <= IdleThreshold}
           /\ \A k \in DOMAIN clients' : clients'[k] = clients[k] ]_vars

\* A sweep has removed one entry and kept another.
C5_Witness ==
  /\ sweep.pc = "unlock"
  /\ sweep.deleted # {}
  /\ DOMAIN clients # {}

\* The last stage or call request r entered.
Stage(r) == Last(r.calls)

\* C6 (part): the steps of a request the limiter has refused change nothing
\* but the request itself and the mutex it gives back; the refusal itself
\* leaves every other key's registry entry alone.
C6Frame ==
  \A p \in Procs :
    /\ (req[p].pc \in {"denied", "write429"} /\ req'[p] # req[p])
         => /\ clients' = clients
            /\ \A q \in Procs \ {p} : req'[q] = req[q]
    /\ (req[p].pc = "allow" /\ req'[p].pc = "denied")
         => \A k \in DOMAIN clients \ {req[p].ip} :
              k \in DOMAIN clients' /\ clients'[k] = clients[k]

\* C6 (part): a request rejected by a stage (not a recovered panic) is over,
\* the handler was not entered, and the rejection is that of the last stage
\* entered; a rate-limited request entered no stage after rateLimit and has
\* no principal.
C6Rejected ==
  \A p \in Procs :
    (req[p].resp \in Rejections /\ ~req[p].close) =>
      /\ Over(req[p])
      /\ ~Has(req[p], "handler")
      /\ req[p].resp = "rateLimitExceeded" =>
           (req[p].calls = <<"rateLimit">> /\ req[p].user = NoUser /\ req[p].hdr = Unread)
      /\ req[p].resp \in {"invalidCredentials", "invalidAuthenticationToken"} =>
           (~Has(req[p], "router")
              /\ Stage(req[p]) \in {"authenticate", "ValidateTokenPlaintext", "GetForToken"})
      /\ req[p].resp = "authenticationRequired" => Stage(req[p]) = "requireAuthenticatedUser"
      /\ req[p].resp = "inactiveAccount" => Stage(req[p]) = "requireActivatedUser"
      /\ req[p].resp = "notPermitted" => Stage(req[p]) = "GetAllForUser"
      /\ req[p].resp = "serverError" => Stage(req[p]) \in {"GetForToken", "GetAllForUser"}

\* C6: once a stage has rejected a request no later stage and no handler
\* runs for it; a rate-limited request never reaches authenticate or the
\* handler and changes no state but the registry entry of its key.
C6_RejectEndsChain == [](C6Rejected) /\ [][C6Frame]_vars

\* One request was rate limited and another rejected by a gate.
C6_Witness ==
  \E p, q \in Procs :
    /\ req[p].pc = "done" /\ req[p].resp = "rateLimitExceeded"
    /\ req[q].pc = "done" /\ req[q].resp = "notPermitted"

\* C7: with the limiter disabled every request goes on to the next handler,
\* no request takes the mutex (only the sweep does) and the clients map stays
\* empty.
C7_DisabledPassesAll ==
  ~enabled =>
    /\ mu \notin Procs
    /\ clients = <<>>
    /\ \A p \in Procs :
         /\ req[p].pc \notin {"lock", "find", "create", "seen", "allow", "admitted",
                              "denied", "write429"}
         /\ req[p].resp # "rateLimitExceeded"
         /\ req[p].pc \notin {"idle", "rateLimit"} => Has(req[p], "authenticate")

\* Disabled, and both goroutines have served a request through to its handler.
C7_Witness ==
  /\ ~enabled
  /\ \A p \in Procs : req[p].pc = "done" /\ req[p].resp = "ok"

\* C8: a request without an Authorization header has the anonymous principal
\* and went on to the next handler; it met neither the validator nor the
\* lookup nor a rejection of authenticate.
C8_NoHeaderAnonymous ==
  \A p \in Procs :
    req[p].hdr = <<>> =>
      /\ req[p].user = AnonymousUser
      /\ Has(req[p], "router")
      /\ ~Has(req[p], "ValidateTokenPlaintext")
      /\ ~Has(req[p], "GetForToken")
      /\ req[p].resp \notin {"invalidCredentials", "invalidAuthenticationToken"}
      /\ req[p].resp = "serverError" => (req[p].close /\ Has(req[p], "handler"))

\* A request without the header was served by an ungated handler.
C8_Witness ==
  \E p \in Procs :
    /\ req[p].hdr = <<>> /\ req[p].pc = "done" /\ req[p].resp = "ok"
    /\ req[p].user = AnonymousUser

\* A "Bearer <token>" header whose token has the wrong shape.
BadToken(h) == IsBearer(Split(h)) /\ ~IsValidTokenShape(Split(h)[2])

\* C9 as stated: a "Bearer <token>" header whose token fails the validator is
\* rejected as invalid-credentials, without a lookup.
C9_Original ==
  \A p \in Procs :
    (req[p].hdr # Unread /\ BadToken(req[p].hdr)) =>
      /\ req[p].resp = "invalidCredentials"
      /\ ~Has(req[p], "GetForToken")

\* C9 amended: such a request is rejected with the invalid-authentication-token
\* response, and is over without a lookup.
C9_BadTokenNoLookup ==
  \A p \in Procs :
    (req[p].hdr # Unread /\ BadToken(req[p].hdr)) =>
      /\ Over(req[p])
      /\ req[p].resp = "invalidAuthenticationToken"
      /\ ~Has(req[p], "GetForToken")

\* The header "Bearer abc" has been rejected.
C9_Witness ==
  \E p \in Procs :
    /\ req[p].hdr = <<"Bearer", " ", "abc">>
    /\ req[p].pc = "done"
    /\ req[p].resp = "invalidAuthenticationToken"

C12Decision ==
  \A p \in Procs :
    LET r == req[p]
        code == r.route.code
        NoCode == {ps \in SUBSET Codes : code \notin ps}
        Same(a, b) == [a EXCEPT !.pc = "", !.resp = "", !.calls = <<>>, !.perms = {}]
                        = [b EXCEPT !.pc = "", !.resp = "", !.calls = <<>>, !.perms = {}]
    IN /\ Has(r, "GetAllForUser") =>
            (r.user \in Users /\ ~IsAnonymous(r.user) /\ r.user.activated
               /\ r.route.gate = "permission")
       /\ (Has(r, "GetAllForUser") /\ r.pc \notin {"GetAllForUser", "panic"} /\ ~r.close) =>
            /\ Has(r, "handler") <=> (r.perr = "nil" /\ code \in r.perms)
            /\ (r.perr = "nil" /\ code \notin r.perms) =>
                 (Over(r) /\ r.resp = "notPermitted" /\ StatusCode(r.resp) = 403)
            /\ r.perr # "nil" =>
                 (Over(r) /\ r.resp = "serverError" /\ StatusCode(r.resp) = 500)
       /\ r.pc = "GetAllForUser" =>
            \A ps \in NoCode :
              LET without == PermissionOutcome(r, [perms |-> ps, err |-> "nil"])
                  with == PermissionOutcome(r, [perms |-> ps \cup {code}, err |-> "nil"])
              IN /\ without.pc = "done" /\ without.resp = "notPermitted"
                 /\ with.pc = "handler" /\ with.resp = "none"
                 /\ Same(without, r) /\ Same(with, r)

\* C12 (part): the step that takes the lookup's result changes nothing but the
\* request's own outcome: not its principal, no other request, no shared state.
C12Frame ==
  \A p \in Procs :
    (req[p].pc = "GetAllForUser" /\ req'[p] # req[p]) =>
      /\ req'[p].user = req[p].user /\ req'[p].route = req[p].route
      /\ \A q \in Procs \ {p} : req'[q] = req[q]
      /\ clients' = clients /\ mu' = mu /\ stats' = stats

\* C12: for an authenticated, activated principal requirePermission(code)
\* calls the next handler iff the looked-up permission set contains code;
\* otherwise not-permitted (403), or internal-error (500) if the lookup
\* fails; adding code to the set flips not-permitted to pass and changes
\* nothing else.
C12_PermissionDecides == [](C12Decision) /\ [][C12Frame]_vars

\* One request holding only the other code was refused while another, holding
\* the code of the same route, reached its handler.
C12_Witness ==
  \E p, q \in Procs :
    /\ req[p].route = req[q].route /\ req[p].user = req[q].user
    /\ req[p].route.gate = "permission"
    /\ req[p].resp = "notPermitted" /\ req[p].perms # {}
    /\ Has(req[q], "handler") /\ req[q].perms = req[p].perms \cup {req[p].route.code}

\* Request r entered a before b.
Before(r, a, b) ==
  \E i, j \in 1..Len(r.calls) : i < j /\ r.calls[i] = a /\ r.calls[j] = b

\* C13: the gates check authenticated, then activated, then permitted.  Behind
\* requirePermission an anonymous principal is answered
\* authentication-required and an authenticated one that is not activated
\* inactive-account, neither with a permission lookup; behind
\* requireActivatedUser an anonymous principal is answered
\* authentication-required, never inactive-account.
C13_GateOrder ==
  \A p \in Procs :
    LET r == req[p]
        gate == r.route.gate
    IN /\ Has(r, "requireActivatedUser") =>
            Before(r, "requireAuthenticatedUser", "requireActivatedUser")
       /\ Has(r, "requirePermission") =>
            Before(r, "requireActivatedUser", "requirePermission")
       /\ Has(r, "GetAllForUser") => Before(r, "requirePermission", "GetAllForUser")
       /\ (gate \in {"permission", "activated"} /\ IsAnonymous(r.user)) =>
            /\ ~Has(r, "GetAllForUser") /\ ~Has(r, "requireActivatedUser")
            /\ r.resp # "inactiveAccount"
            /\ Over(r) => r.resp = "authenticationRequired"
       /\ (gate = "permission" /\ r.user \in Users /\ ~r.user.activated) =>
            /\ ~Has(r, "GetAllForUser") /\ ~Has(r, "requirePermission")
            /\ Over(r) => r.resp = "inactiveAccount"

\* Behind requirePermission, an anonymous request was answered
\* authentication-required and one of a user not activated inactive-account.
C13_Witness ==
  \E p, q \in Procs :
    /\ req[p].route.gate = "permission" /\ req[q].route.gate = "permission"
    /\ IsAnonymous(req[p].user) /\ req[p].resp = "authenticationRequired"
    /\ req[q].user = Bob /\ req[q].resp = "inactiveAccount"

\* C14 (part): a request has its principal from the moment authenticate
\* passes it on, so before any gate; a handler behind a gate runs for a
\* looked-up user only, never for the anonymous principal.
C14Principal ==
  \A p \in Procs :
    LET r == req[p]
    IN /\ Has(r, "router") <=> r.user # NoUser
       /\ r.user # NoUser => (IsAnonymous(r.user) \/ r.user \in Users)
       /\ IsAnonymous(r.user) <=> (r.hdr = <<>> /\ Has(r, "router"))
       /\ (Has(r, "handler") /\ r.route.gate # "open") =>
            (~IsAnonymous(r.user) /\ r.user \in Users)

\* C14 (part): the principal of a request is written by authenticate, as it
\* passes the request on, and at no other step of that request.
C14SetOnce ==
  \A p \in Procs :
    req'[p].user # req[p].user =>
      \/ req'[p].pc = "rateLimit" /\ req'[p].user = NoUser
      \/ /\ req[p].user = NoUser
         /\ req[p].pc \in {"authenticate", "GetForToken"}
         /\ req'[p].pc = "router"

\* C14: the principal is set exactly once, before any access gate runs, and
\* not changed afterwards; a handler wrapped by a gate never runs for the
\* anonymous principal.
C14_PrincipalSetOnce == [](C14Principal) /\ [][C14SetOnce]_vars

\* A looked-up user was served by a gated handler and an anonymous request by
\* an ungated one.
C14_Witness ==
  \E p, q \in Procs :
    /\ req[p].user = Alice /\ req[p].route.gate = "activated" /\ req[p].resp = "ok"
    /\ IsAnonymous(req[q].user) /\ req[q].route.gate = "open" /\ req[q].resp = "ok"

\* C15 (part): a request that panicked holds no mutex and has no response
\* until recoverPanic gives it the internal error (500) with "Connection:
\* close"; a request that ended in a lookup or handler without its own
\* answer is such a request.
C15Recovered ==
  \A p \in Procs :
    LET r == req[p]
    IN /\ r.pc = "panic" => (r.resp = "none" /\ ~r.close /\ mu # p /\ Stage(r) \in MayPanic)
       /\ r.close =>
            (Over(r) /\ r.resp = "serverError" /\ StatusCode(r.resp) = 500
               /\ Stage(r) \in MayPanic /\ mu # p)
       /\ (Over(r) /\ Stage(r) = "handler") =>
            (r.resp = "ok" \/ (r.resp = "serverError" /\ r.close))
       /\ (Over(r) /\ Stage(r) = "GetForToken" /\ r.err = "nil") =>
            (r.resp = "serverError" /\ r.close)

\* C15 (part): a request is answered once; the panic of a request and its
\* recovery change nothing of any other request nor of the shared state.
C15Step ==
  \A p \in Procs :
    /\ req'[p].resp # req[p].resp =>
         (req[p].resp = "none" \/ (req'[p].pc = "rateLimit" /\ req'[p].resp = "none"))
    /\ (req'[p] # req[p] /\ (req[p].pc = "panic" \/ req'[p].pc = "panic")) =>
         /\ \A q \in Procs \ {p} : req'[q] = req[q]
         /\ clients' = clients /\ mu' = mu /\ stats' = stats /\ sweep' = sweep

C16_Original ==
  enabled =>
    /\ BadKey \notin DOMAIN clients
    /\ \A p \in Procs :
         req[p].ip = BadKey =>
           req[p].pc \notin {"admitted", "denied", "write429", "authenticate"}

\* The sum of f over the set S.
RECURSIVE SumOver(_, _)
SumOver(f, S) ==
  IF S = {} THEN 0 ELSE LET c == CHOOSE x \in S : TRUE IN f[c] + SumOver(f, S \ {c})

\* The requests below metrics whose response is not counted yet, and those
\* counted as sent but not yet by status.
Uncounted == {p \in Procs : req[p].pc \notin {"idle", "sent", "counted"}}
HalfCounted == {p \in Procs : req[p].pc = "sent"}

\* C17 (part): where metrics is installed, the requests received are those
\* counted as sent and those still in the chain; the responses sent are those
\* counted by status and those about to be; so sent <= received, and with no
\* request in flight received = sent = the sum of the counts by status.
C17Counters ==
  Metered =>
    /\ stats.received = stats.sent + Cardinality(Uncounted)
    /\ stats.sent = SumOver(stats.byStatus, StatusCodes) + Cardinality(HalfCounted)
    /\ stats.sent <= stats.received
    /\ (Uncounted = {} /\ HalfCounted = {}) =>
         (stats.received = stats.sent
            /\ stats.sent = SumOver(stats.byStatus, StatusCodes))

\* C17 (part): a request adds one to received as it enters, one to sent when
\* the chain below has returned, whatever its response, and then one to the
\* count of its status; no other step touches a counter.
C17Step ==
  Metered =>
    \A p \in Procs :
      req'[p] # req[p] =>
        CASE req'[p].pc = "rateLimit" ->
               stats' = [stats EXCEPT !.received = @ + 1]
          [] req[p].pc = "done" ->
               (req'[p].pc = "sent" /\ stats' = [stats EXCEPT !.sent = @ + 1])
          [] req[p].pc = "sent" ->
               (req'[p].pc = "counted"
                  /\ stats' = [stats EXCEPT !.byStatus[StatusCode(req[p].resp)] = @ + 1])
          [] OTHER -> stats' = stats

\* C17: every request entering metrics is counted once as received and, when
\* the chain below returns, once as sent and once under its status, a 429,
\* 401, 403 or recovered 500 included; sent <= received always, and all three
\* totals agree when no request is in flight.
C17_MetricsCount == [](C17Counters) /\ [][C17Step]_vars

\* No request is in flight and a 429, a 401, a 403 and a recovered 500 have
\* been counted.
C17_Witness ==
  /\ Metered /\ Uncounted = {} /\ HalfCounted = {}
  /\ stats.byStatus[429] = 1 /\ stats.byStatus[401] >= 1
  /\ stats.byStatus[403] >= 1 /\ stats.byStatus[500] >= 1
  /\ \E p \in Procs : req[p].close

\* The goroutines between mu.Lock() and mu.Unlock(): requests from the lookup
\* of their entry to the unlock after Allow(), the sweep from its scan to
\* its unlock.
Critical == {"find", "create", "seen", "allow", "admitted", "denied"}
InCritical ==
  {p \in Procs : req[p].pc \in Critical}
    \cup (IF sweep.pc \in {"scan", "unlock"} THEN {Sweeper} ELSE {})

\* C18 (part): at most one goroutine, the sweeper included, is inside the
\* mutex-guarded section, and it is the holder of the mutex.
C18OneInside ==
  /\ Cardinality(InCritical) <= 1
  /\ InCritical = (IF mu = Free THEN {} ELSE {mu})

\* C18 (part): the clients map is changed only by a step of the goroutine
\* inside the section.
C18MapGuarded ==
  clients' # clients =>
    /\ mu # Free /\ mu' = mu
    /\ IF mu = Sweeper THEN sweep' # sweep ELSE req'[mu] # req[mu]

\* C18: the sweep's scan-and-delete and a request's admission section are
\* never in progress together: at most one goroutine is inside the
\* mutex-guarded section in any reachable state.
C18_MutualExclusion == [](C18OneInside) /\ [][C18MapGuarded]_vars

\* The sweep is scanning a map with entries while a request waits for the
\* mutex.
C18_Witness ==
  /\ sweep.pc = "scan" /\ mu = Sweeper
  /\ DOMAIN clients # {}
  /\ \E p \in Procs : req[p].pc = "lock"

\* The positions of a request after rateLimit's critical section: the writing
\* of the 429, authenticate and its lookup, the gates, the handler, and the
\* way back up.
Downstream ==
  {"write429", "authenticate", "GetForToken", "router", "requireAuthenticatedUser",
   "requireActivatedUser", "requirePermission", "GetAllForUser", "handler", "panic",
   "done", "sent", "counted"}

\* C19 (part): a request writing its 429, in authenticate or its lookup, at a
\* gate or in its handler does not hold the mutex; so while every goroutine
\* is outside the critical section, however long those calls take, the mutex
\* is free for the next admission check or the sweep.
C19Released ==
  /\ \A p \in Procs : req[p].pc \in Downstream => mu # p
  /\ (\A p \in Procs : req[p].pc \in Downstream \cup {"idle", "rateLimit", "lock"})
       => mu \in {Free, Sweeper}
  /\ \A p, q \in Procs :
       (req[p].pc \in {"GetForToken", "GetAllForUser", "handler", "write429"}
          /\ req[q].pc = "lock" /\ sweep.pc \notin {"scan", "unlock"})
         => mu = Free

\* C19 (part): on the deny path the mutex is released by the step before the
\* 429 is written, on the admit path by the step that calls next.
C19Step ==
  \A p \in Procs :
    /\ (req[p].pc = "denied" /\ req'[p].pc = "write429") => (mu = p /\ mu' = Free)
    /\ (req[p].pc = "admitted" /\ req'[p].pc = "authenticate") => (mu = p /\ mu' = Free)
    /\ (req[p].pc \in Downstream /\ req'[p] # req[p]) => mu' = mu

\* C19: no request holds the mutex while its handler, its token lookup or the
\* writing of its 429 runs: it is released on the admit and on the deny path
\* before any of them starts.
C19_NoLockDownstream == [](C19Released) /\ [][C19Step]_vars

\* While one request writes its 429 another is inside the critical section.
C19_Witness ==
  \E p, q \in Procs :
    /\ req[p].pc = "write429"
    /\ req[q].pc = "allow" /\ mu = q

\* C20: once Allow() has admitted a request, no later step of that request,
\* whether it is rejected by authenticate or a gate, panics or is served,
\* changes the clients map: the bucket and lastSeen of its client stay as the
\* admission left them, the token is not returned.
C20_NoRefund ==
  [][ \A p \in Procs :
        (req[p].pc \in {"admitted"} \cup Downstream /\ req'[p] # req[p])
          => clients' = clients ]_vars

\* Two admitted requests of one client have ended, one rejected by a gate and
\* one by a recovered panic, and both their tokens are gone.
C20_Witness ==
  \E p, q \in Procs :
    /\ enabled /\ Metered
    /\ Over(req[p]) /\ req[p].resp = "inactiveAccount"
    /\ Over(req[q]) /\ req[q].close
    /\ DOMAIN clients # {}
    /\ \A k \in DOMAIN clients : clients[k].limiter.tokens <= Full - 2 * One

\* The lookups a request may be waiting in.
Lookups == {"GetForToken", "GetAllForUser"}

\* C21 as stated: when the caller has aborted a request whose token lookup or
\* permission lookup is in flight, the lookup is abandoned: it ends with an
\* error, which the chain answers as an internal error, never with a user, a
\* not-found or a permission set.
C21_Original ==
  [][ \A p \in Procs :
        (req[p].aborted /\ req[p].pc \in Lookups /\ req'[p].pc # req[p].pc)
          => (req'[p].pc = "done" /\ req'[p].resp = "serverError") ]_vars

\* The registry with the sweep and the one without hold the same tokens for
\* every client: a bucket the sweep has deleted would be full, as its
\* replacement will be.
RegistryAgree ==
  \A k \in DOMAIN shadow.reg :
    IF k \in DOMAIN clients
    THEN Advance(clients[k].limiter, now) = Advance(shadow.reg[k].limiter, now)
    ELSE Advance(shadow.reg[k].limiter, now) = Full

\* The Allow() of request p decides as it would have without the sweep.
DecisionAgree(p) ==
  (req[p].pc = "allow" /\ req'[p].pc # "allow")
    => /\ req[p].ip \in DOMAIN shadow.reg
       /\ AllowOK(clients[req[p].ip].limiter, now)
            = AllowOK(shadow.reg[req[p].ip].limiter, now)

\* C22 as stated: every admission decision is the one the registry would take
\* had the sweep never run.
C22_Original == [][\A p \in Procs : DecisionAgree(p)]_vars

\* C22 (part): while no Allow() has run more than MaxStall after its stamp,
\* the two registries agree on every bucket.
C22Agree == ~shadow.late => RegistryAgree

\* C22 (part): ... and every decision is the one taken without the sweep.
C22Step == ~shadow.late => \A p \in Procs : DecisionAgree(p)

\* C22, amended: with rate 2/s, burst 4, idle threshold 3 minutes and a sweep
\* every minute, as long as every admission check calls Allow() no more than
\* MaxStall (the idle threshold less the time a bucket takes to fill, 178 s)
\* after it stamped lastSeen, the admit/deny decisions with the sweep running
\* are those of the registry with the sweep never running.
C22_EvictionInvisible == [](C22Agree) /\ [][C22Step]_vars

\* The sweep has deleted the entry of a client that had used its bucket up,
\* the client is back, and its request is about to be decided on a new
\* entry, where without the sweep it would be decided on the old one.
C22_Witness ==
  /\ ~shadow.late
  /\ \E p \in Procs :
       /\ req[p].pc = "allow"
       /\ sweep.deleted = {} /\ now > IdleThreshold
       /\ clients[req[p].ip].limiter = NewLimiter
       /\ shadow.reg[req[p].ip].limiter.tokens = 0

\* The admissions among the decisions ds.
Admitted(ds) == {i \in 1..Len(ds) : ds[i].ok}

\* C23 (part): a step of a request in rateLimit with client key A leaves the
\* entry of every other key as it was: present or absent, with the same
\* tokens and the same lastSeen.
C23Frame ==
  \A p \in Procs :
    (req[p].ip # NoIP /\ req'[p] # req[p])
      => \A k \in Keys \ {req[p].ip} :
           /\ (k \in DOMAIN clients') <=> (k \in DOMAIN clients)
           /\ k \in DOMAIN clients => clients'[k] = clients[k]

\* C23 (part): before the clock has moved, a bucket is short of the tokens
\* of its own client's admitted requests and of no others, and a request is
\* refused only after Burst admitted requests of its own client.
C23Own ==
  now = 0 =>
    \A k \in DOMAIN clients :
      Len(log[k]) < MaxLog =>
        /\ clients[k].limiter.tokens = Full - One * Cardinality(Admitted(log[k]))
        /\ \A i \in 1..Len(log[k]) :
             ~log[k][i].ok => Cardinality(Admitted(SubSeq(log[k], 1, i - 1))) = Burst

\* C23: an admission check for client key A reads and writes only A's entry:
\* it changes the tokens, the lastSeen and the presence of no other key's
\* entry, so one client using its bucket up never has a request of another
\* client refused.
C23_OwnEntryOnly == [](C23Own) /\ [][C23Frame]_vars

\* One client has used its bucket up and been refused; the first request of
\* another client has just been admitted from a full bucket.
C23_Witness ==
  \E p \in Procs : \E k \in Keys \ {req[p].ip} :
    /\ req[p].pc = "admitted"
    /\ log[req[p].ip] = <<[avail |-> Full, ok |-> TRUE, waited |-> -1]>>
    /\ log[k] # <<>> /\ ~Last(log[k]).ok
    /\ k \in DOMAIN clients /\ clients[k].limiter.tokens = 0

\* Request p is in rateLimit: at its entry, waiting for the mutex, inside
\* the critical section or writing its 429.
InRateLimit(p) == req[p].pc \in {"rateLimit", "lock", "write429"} \cup Critical

\* rateLimit is done with request p: it has answered 429, or called next.
Decided(p) ==
  \/ req[p].pc = "done" /\ req[p].resp = "rateLimitExceeded"
  \/ req[p].pc = "authenticate"

\* C24 (part): a request leaves rateLimit only answered 429 or passed to the
\* next handler; the sweep ends a pass only after its scan, by releasing
\* the mutex; and the mutex is released only by a step of its holder.
C24Step ==
  /\ \A p \in Procs : (InRateLimit(p) /\ ~InRateLimit(p)') => Decided(p)'
  /\ (sweep.pc # "sleep" /\ sweep'.pc = "sleep")
       => (sweep.pc = "unlock" /\ mu = Sweeper /\ mu' = Free)
  /\ (sweep.pc = "sleep" /\ sweep'.pc # "sleep") => now >= sweep.wakeAt
  /\ (mu # Free /\ mu' # mu)
       => (mu' = Free /\ IF mu = Sweeper THEN sweep' # sweep ELSE req'[mu] # req[mu])

\* C24: under fair scheduling the limiter never deadlocks: the mutex, whoever
\* took it, is released again; every request that enters rateLimit leaves
\* it, answered 429 or passed to the next handler, whatever the other
\* request and the sweep do; and the sweep, whenever its sleep is over, gets
\* the mutex, finishes its pass and sleeps again.
C24_NoDeadlock ==
  /\ []<>(mu = Free)
  /\ \A p \in Procs : []<>(~InRateLimit(p))
  /\ []<>(sweep.pc = "sleep" /\ now < sweep.wakeAt)
  /\ [][C24Step]_vars

\* One request holds the mutex while the other request and the sweep both
\* wait for it.
C24_Witness ==
  \E p, q \in Procs :
    /\ req[p].pc = "allow" /\ mu = p
    /\ req[q].pc = "lock"
    /\ sweep.pc = "lock"

====
